---- MODULE Spec2Model ----
(***************************************************************************)
(* A model of the batched classification scoring pipeline of               *)
(* delphi/scorers/classifier/classifier.py: Classifier.__call__, _batch,   *)
(* _query (asyncio tasks gated by a semaphore), _generate, _parse and      *)
(* _parse_logprobs; of RecallScorer._prepare; of the samplers of           *)
(* features/samplers.py; of Local.generate of clients/local.py; and of     *)
(* TensorBuffer and FeatureLoader._worker of features/loader.py.           *)
(***************************************************************************)
EXTENDS Integers, Sequences, FiniteSets, TLC

\* ------------------------------------------------------------------ bounds

MaxSamples == 3
MaxBatchSize == 2
MaxTextLen == 5
\* The largest concurrencyLimit a scorer is constructed with
MaxLimit == 2
\* The longest log-probability stream of SpecLogprobs
MaxStreamLen == 3
\* The most test groups of a record of SpecPrepare, and their largest size
MaxGroups == 2
MaxGroupSize == 2
\* SpecSamplers: the most examples of a record, their largest activation and
\* the largest n_train
MaxExamples == 4
MaxActivation == 2
MaxTrain == 1
\* SpecLocal: the largest max_retries
MaxRetries == 3
\* SpecBuffer: the largest feature index of a cached split, and the longest
\* list of selected features
MaxFeature == 2
MaxSelected == 3

\* ------------------------------------------------------- program constants

\* asyncio.Semaphore(1) in _query
SemCapacity == 1
\* generation_kwargs["top_logprobs"] = 5
TopLogprobs == 5
\* `if mask.sum() <= 120` in TensorBuffer.__next__
MinExamples == 120

\* --------------------------------------------------------------- sequences

RECURSIVE Flatten(_)
\* sum(results, []): the concatenation of a list of lists, left to right
Flatten(ss) == IF ss = <<>> THEN <<>> ELSE Head(ss) \o Flatten(Tail(ss))

\* [x] * n
Repeat(x, n) == [i \in 1..n |-> x]

Min(a, b) == IF a <= b THEN a ELSE b

\* All sequences over S of length at most n
SeqsUpTo(S, n) == UNION {[1..k -> S] : k \in 0..n}

\* ------------------------------------------------------------ response text

\* A response text is a sequence of characters; LF stands for a line break.
LF == "LF"
Digits == {"0", "1", "2", "3", "4", "5", "6", "7", "8", "9"}
\* The characters the texts of SpecText are built from
Chars == {"[", "]", ",", " ", "0", "1"}
\* Whitespace that json.loads skips between the tokens of a document
JsonWhitespace == {" ", LF}

\* re.search(r"\[.*?\]", string) found nothing: match is None
NoMatch == <<>>

\* re_search with the greedy pattern r"\[.*\]": up to the last "]" of the line
re_search_greedy(string) ==
    LET Closes(i) == {j \in (i + 1)..Len(string) :
                        /\ string[j] = "]"
                        /\ \A k \in (i + 1)..(j - 1) : string[k] # LF}
        starts == {i \in DOMAIN string : string[i] = "[" /\ Closes(i) # {}}
    IN IF starts = {} THEN NoMatch
       ELSE LET i == CHOOSE a \in starts : \A b \in starts : a <= b
                j == CHOOSE a \in Closes(i) : \A b \in Closes(i) : a >= b
            IN SubSeq(string, i, j)

\* re.search(r"\[.*?\]", string).group(0): the leftmost "[" that some "]"
\* follows on the same line ("." does not match a line break), up to the
\* first "]" after it (".*?" is lazy).
re_search(string) ==
    LET starts == {i \in DOMAIN string :
                     /\ string[i] = "["
                     /\ \E j \in (i + 1)..Len(string) :
                          /\ string[j] = "]"
                          /\ \A k \in (i + 1)..(j - 1) : string[k] # LF}
    IN IF starts = {} THEN NoMatch
       ELSE LET i == CHOOSE a \in starts : \A b \in starts : a <= b
                closes == {j \in (i + 1)..Len(string) : string[j] = "]"}
                j == CHOOSE a \in closes : \A b \in closes : a <= b
            IN SubSeq(string, i, j)

RECURSIVE SplitComma(_)
\* The pieces of s between its commas
SplitComma(s) ==
    LET commas == {i \in DOMAIN s : s[i] = ","}
    IN IF commas = {} THEN <<s>>
       ELSE LET i == CHOOSE a \in commas : \A b \in commas : a <= b
            IN <<SubSeq(s, 1, i - 1)>> \o SplitComma(SubSeq(s, i + 1, Len(s)))

RECURSIVE Strip(_)
\* s without its leading and trailing whitespace
Strip(s) ==
    IF s = <<>> THEN s
    ELSE IF s[1] \in JsonWhitespace THEN Strip(Tail(s))
    ELSE IF s[Len(s)] \in JsonWhitespace THEN Strip(SubSeq(s, 1, Len(s) - 1))
    ELSE s

\* A JSON integer literal: digits, with no leading zero unless it is "0"
IsJsonInt(p) ==
    /\ p # <<>>
    /\ \A i \in DOMAIN p : p[i] \in Digits
    /\ (Len(p) = 1 \/ p[1] # "0")

DigitValue(c) ==
    CASE c = "0" -> 0 [] c = "1" -> 1 [] c = "2" -> 2 [] c = "3" -> 3
      [] c = "4" -> 4 [] c = "5" -> 5 [] c = "6" -> 6 [] c = "7" -> 7
      [] c = "8" -> 8 [] c = "9" -> 9

RECURSIVE IntValue(_)
IntValue(p) ==
    IF p = <<>> THEN 0
    ELSE 10 * IntValue(SubSeq(p, 1, Len(p) - 1)) + DigitValue(p[Len(p)])

\* json.loads(match.group(0)) of a text "[" ... "]" whose inside holds no "]".
\* ok = FALSE stands for json.JSONDecodeError. The texts of this model hold
\* brackets, commas, whitespace and digits between their brackets, so the
\* document is an array of integers or is malformed.
json_loads(m) ==
    LET inside == SubSeq(m, 2, Len(m) - 1)
        pieces == SplitComma(inside)
    IN IF Strip(inside) = <<>> THEN [ok |-> TRUE, value |-> <<>>]
       ELSE IF \A i \in DOMAIN pieces : IsJsonInt(Strip(pieces[i]))
       THEN [ok |-> TRUE,
             value |-> [i \in DOMAIN pieces |-> IntValue(Strip(pieces[i]))]]
       ELSE [ok |-> FALSE, value |-> <<>>]

RECURSIVE JoinComma(_)
JoinComma(xs) ==
    IF xs = <<>> THEN <<>>
    ELSE IF Len(xs) = 1 THEN Head(xs)
    ELSE Head(xs) \o <<",">> \o JoinComma(Tail(xs))

\* The text a model writes for a list of one-digit labels: "[0,1,1]"
ListText(labels) ==
    <<"[">> \o JoinComma([i \in DOMAIN labels |-> <<labels[i]>>]) \o <<"]">>

\* ------------------------------------------------------- log-probabilities

\* The log-probabilities the client may report, and np.exp of each in
\* hundredths (np.exp(ln(0.2)) = 0.2 is 20).
LogprobValues == {"-inf", "ln(0.2)", "ln(0.8)", "ln(1)"}
np_exp(logprob) ==
    CASE logprob = "-inf" -> 0
      [] logprob = "ln(0.2)" -> 20
      [] logprob = "ln(0.8)" -> 80
      [] logprob = "ln(1)" -> 100

\* "c" in token
In(c, token) == \E i \in DOMAIN token : token[i] = c

\* The values of a ClassifierOutput's probability: None, the integer -1 that
\* _generate writes for a failed batch, or the float num/den.
None == [kind |-> "None", num |-> 0, den |-> 1]
MinusOne == [kind |-> "int", num |-> -1, den |-> 1]
Float(n, d) == [kind |-> "float", num |-> n, den |-> d]

RECURSIVE SumProb(_, _)
\* The sum of np.exp(logprob) over the alternatives of `top` chosen by `pick`
SumProb(top, pick) ==
    IF top = <<>> THEN 0
    ELSE (IF Head(top).token \in pick THEN np_exp(Head(top).logprob) ELSE 0)
         + SumProb(Tail(top), pick)

\* One pass of the inner loop of _parse_logprobs over top_logprobs: an
\* alternative holding "0" adds to prob_0, otherwise (elif) one holding "1"
\* adds to prob_1.
binary_probability(top_logprobs) ==
    LET tokens == {top_logprobs[i].token : i \in DOMAIN top_logprobs}
        prob_0 == SumProb(top_logprobs, {t \in tokens : In("0", t)})
        prob_1 == SumProb(top_logprobs,
                          {t \in tokens : ~In("0", t) /\ In("1", t)})
    IN IF prob_0 + prob_1 > 0 THEN Float(prob_1, prob_0 + prob_1)
       ELSE Float(0, 1)

RECURSIVE binary_probabilities(_)
\* The list _parse_logprobs builds: one entry per token holding "1" or "0"
binary_probabilities(logprobs) ==
    IF logprobs = <<>> THEN <<>>
    ELSE (IF In("1", Head(logprobs).token) \/ In("0", Head(logprobs).token)
          THEN <<binary_probability(Head(logprobs).top_logprobs)>>
          ELSE <<>>) \o binary_probabilities(Tail(logprobs))

\* The exception a call raised, by its class; NoException when it returned
NoException == "none"

\* _parse_logprobs without the assert of line 174
ParseLogprobsUnchecked(logprobs, size) ==
    [raised |-> NoException, value |-> binary_probabilities(logprobs)]

\* Classifier._parse_logprobs: the list, or the AssertionError of line 174
_parse_logprobs(logprobs, size) ==
    LET probs == binary_probabilities(logprobs)
    IN IF Len(probs) = size
       THEN [raised |-> NoException, value |-> probs]
       ELSE [raised |-> "AssertionError", value |-> <<>>]

\* response.logprobs is None, or a list of token entries
NoLogprobs == [none |-> TRUE, stream |-> <<>>]
Logprobs(stream) == [none |-> FALSE, stream |-> stream]

\* _parse raising an exception of class cls
ParseRaises(cls) ==
    [raised |-> cls, predictions |-> <<>>, probabilities |-> <<>>]

\* Classifier._parse(string, logprobs): match.group(0) of no match is an
\* AttributeError, json.loads raises JSONDecodeError, the assert of line 134
\* an AssertionError.
_parse(string, logprobs, size) ==
    LET match == re_search(string)
        loaded == json_loads(match)
        probabilities ==
            IF logprobs.none
            THEN [raised |-> NoException, value |-> Repeat(None, size)]
            ELSE _parse_logprobs(logprobs.stream, size)
    IN IF match = NoMatch THEN ParseRaises("AttributeError")
       ELSE IF ~loaded.ok THEN ParseRaises("JSONDecodeError")
       ELSE IF Len(loaded.value) # size THEN ParseRaises("AssertionError")
       ELSE IF probabilities.raised # NoException
       THEN ParseRaises(probabilities.raised)
       ELSE [raised |-> NoException, predictions |-> loaded.value,
             probabilities |-> probabilities.value]

\* -------------------------------------------------------- samples, outputs

\* sample.text of the i-th prepared sample (the renderer's output is opaque)
SampleText(i) == <<"text", i>>
NoText == <<>>

\* The ClassifierOutput a Sample is built with (sample.data): the ground truth
\* and distance of its provenance, nothing predicted yet.
ClassifierOutput(distance, ground_truth) ==
    [distance |-> distance, ground_truth |-> ground_truth,
     prediction |-> 0, correct |-> FALSE, probability |-> None,
     text |-> NoText]

\* RecallScorer._prepare: the random examples (distance -1, ground truth
\* False), then the examples of the test group (distance 1, ground truth True).
\* Sample i is [id |-> i, text |-> SampleText(i)] and its data is object i.
PreparedSamples(n_random, n_test) ==
    [i \in 1..(n_random + n_test) |-> [id |-> i, text |-> SampleText(i)]]
PreparedData(n_random, n_test) ==
    [i \in 1..(n_random + n_test) |->
        IF i <= n_random THEN ClassifierOutput(-1, FALSE)
        ELSE ClassifierOutput(1, TRUE)]

\* random.shuffle(samples): every order of the same samples
Shuffles(list) ==
    {[i \in DOMAIN list |-> list[p[i]]] : p \in Permutations(DOMAIN list)}

\* _batch that keeps the full chunks only
BatchFullChunks(list, size) ==
    [c \in 1..(Len(list) \div size) |->
        SubSeq(list, (c - 1) * size + 1, c * size)]

\* Classifier._batch: samples[i : i + batch_size] for i in
\* range(0, len(samples), batch_size)
_batch(list, size) ==
    LET n_chunks == (Len(list) + size - 1) \div size
    IN [c \in 1..n_chunks |->
          SubSeq(list, (c - 1) * size + 1, Min(c * size, Len(list)))]

\* PyEquals that compares the truth value of the prediction
PyEqualsTruthy(prediction, ground_truth) == (prediction # 0) = ground_truth

\* prediction == result.ground_truth in Python: True is 1 and False is 0
PyEquals(prediction, ground_truth) ==
    prediction = (IF ground_truth THEN 1 ELSE 0)

\* The predictions and probabilities _generate ends up with (lines 89-105):
\* [-1] * batch_size of both when the call raised or _parse raised.
\* An except clause that names json.JSONDecodeError only
CatchesJsonOnly(cls) == cls = "JSONDecodeError"

\* An except clause that misses AssertionError
CatchesNoAssertion(cls) ==
    cls \in {"RuntimeError", "AttributeError", "JSONDecodeError"}

\* `except Exception` (lines 91 and 102) catches these classes
Catches(cls) ==
    cls \in {"RuntimeError", "AttributeError", "JSONDecodeError",
             "AssertionError"}

\* `error` is what logger.error was called with: "generate" (line 92),
\* "parse" (line 103) or nothing. `escaped` is the exception that leaves
\* _generate.
NoError == "none"

\* Undetermined with [-1] in place of [-1] * batch_size
UndeterminedSingle(error, size) ==
    [predictions |-> <<-1>>, probabilities |-> <<MinusOne>>,
     error |-> error, escaped |-> NoException]

Undetermined(error, size) ==
    [predictions |-> Repeat(-1, size),
     probabilities |-> Repeat(MinusOne, size),
     error |-> error, escaped |-> NoException]
Escaped(cls) ==
    [predictions |-> <<>>, probabilities |-> <<>>, error |-> NoError,
     escaped |-> cls]

\* Lines 89-105 of _generate: the predictions and probabilities of a batch
Predicted(outcome, size, with_logprobs) ==
    IF outcome.raised # NoException
    THEN IF Catches(outcome.raised) THEN Undetermined("generate", size)
         ELSE Escaped(outcome.raised)
    ELSE LET logprobs == IF with_logprobs THEN outcome.logprobs ELSE NoLogprobs
             parsed == _parse(outcome.text, logprobs, size)
         IN IF parsed.raised = NoException
            THEN [predictions |-> parsed.predictions,
                  probabilities |-> parsed.probabilities,
                  error |-> NoError, escaped |-> NoException]
            ELSE IF Catches(parsed.raised) THEN Undetermined("parse", size)
            ELSE Escaped(parsed.raised)

\* Assembled that also overwrites the ground truth with the prediction
AssembledRelabelling(result, sample, prediction, probability, is_verbose) ==
    [result EXCEPT
        !.prediction = prediction,
        !.ground_truth = (prediction = 1),
        !.correct = PyEquals(prediction, result.ground_truth),
        !.probability = IF probability # None THEN probability ELSE @,
        !.text = IF is_verbose THEN sample.text ELSE @]

\* Assembled with `correct` computed before the prediction is assigned
AssembledStale(result, sample, prediction, probability, is_verbose) ==
    [result EXCEPT
        !.prediction = prediction,
        !.correct = PyEquals(result.prediction, result.ground_truth),
        !.probability = IF probability # None THEN probability ELSE @,
        !.text = IF is_verbose THEN sample.text ELSE @]

\* One pass of the loop of _generate (lines 111-122) over sample.data
Assembled(result, sample, prediction, probability, is_verbose) ==
    [result EXCEPT
        !.prediction = prediction,
        !.correct = PyEquals(prediction, result.ground_truth),
        !.probability = IF probability # None THEN probability ELSE @,
        !.text = IF is_verbose THEN sample.text ELSE @]

\* zip(batch, predictions, probabilities) stops at the shortest of the three
ZipLength(batch, p) ==
    Min(Len(batch), Min(Len(p.predictions), Len(p.probabilities)))

\* Classifier._generate: the objects after the loop, and the list returned
GenerateData(objects, batch, p, is_verbose) ==
    [i \in DOMAIN objects |->
        IF \E k \in 1..ZipLength(batch, p) : batch[k].id = i
        THEN LET k == CHOOSE k \in 1..ZipLength(batch, p) : batch[k].id = i
             IN Assembled(objects[i], batch[k], p.predictions[k],
                          p.probabilities[k], is_verbose)
        ELSE objects[i]]
GenerateResults(batch, p) == [k \in 1..ZipLength(batch, p) |-> batch[k].id]

\* ------------------------------------------------------------------ client

\* What client.generate does for one call: it raises, or it returns a
\* response with a text and, possibly, log-probabilities.
Raised == [raised |-> "RuntimeError", text |-> <<>>, logprobs |-> NoLogprobs]
Response(text, logprobs) ==
    [raised |-> NoException, text |-> text, logprobs |-> logprobs]

\* Token entries of a log-probability stream
Token(token, top_logprobs) ==
    [token |-> token, top_logprobs |-> top_logprobs]
Alternative(token, logprob) == [token |-> token, logprob |-> logprob]
BracketToken == Token(<<"[">>, <<Alternative(<<"[">>, "ln(1)")>>)
\* "1" with alternatives "1" (0.8) and "0" (0.2)
OneToken ==
    Token(<<"1">>, <<Alternative(<<"1">>, "ln(0.8)"),
                     Alternative(<<"0">>, "ln(0.2)")>>)
\* "0" whose only reported alternative holds no digit
ZeroToken == Token(<<"0">>, <<Alternative(<<"]">>, "ln(1)")>>)

\* The streams a response may carry: "[" and then two or three digits
LogprobStreams ==
    {<<BracketToken, OneToken, ZeroToken>>,
     <<BracketToken, ZeroToken, OneToken, OneToken>>}

\* The texts a response may carry: lists of one, two or three labels (one of
\* them after a prose prefix and before a second list) and malformed texts.
LabelLists ==
    {<<"1">>, <<"1", "0">>, <<"0", "1">>, <<"2", "1">>, <<"1", "1", "0">>}
MalformedTexts ==
    {<<>>, <<"[", "0", ",">>, <<"[", "0", LF, "]">>}
ResponseTexts ==
    {ListText(labels) : labels \in LabelLists}
    \cup {<<"o", "k", LF, " ", "[", "1", ",", " ", "1", "]", "[", "0", "]">>}
    \cup MalformedTexts

\* The outcomes of a call made with the given generation_kwargs: a client
\* that was not asked for log-probabilities returns none.
ClientOutcomes(kwargs) ==
    {Raised}
    \cup {Response(text, NoLogprobs) : text \in ResponseTexts}
    \cup (IF kwargs.logprobs
          THEN {Response(text, Logprobs(stream)) :
                  text \in ResponseTexts, stream \in LogprobStreams}
          ELSE {})

\* ------------------------------------------------------------------- state

VARIABLES
    batch_size,         \* self.batch_size
    log_prob,           \* self.log_prob
    verbose,            \* self.verbose
    generation_kwargs,  \* self.generation_kwargs: the keys _generate sets
                        \* and the keyword concurrencyLimit (0: not given)
    record,             \* the FeatureRecord given to __call__
    samples,            \* the list `samples` of __call__ before batching
    data,               \* the ClassifierOutput object of each sample
    batches,            \* the list of batches given to _query
    pc,                 \* where __call__ is
    task,               \* where each _process task is
    sem_value,          \* sem._value
    sem_waiters,        \* sem._waiters, in arrival order
    n_calls,            \* how often each task called client.generate
    results,            \* what each finished task returned
    logged,             \* what each task passed to logger.error
    returned,           \* what _query returned
    response,           \* what client.generate gave the task that has not
                        \* yet run on (SpecText: the one call)
    client,             \* SpecTwice: what the client answers to the prompt
                        \* of each batch
    earlier,            \* SpecTwice: the outputs an earlier run returned
    call                \* SpecSamplers: the sampler called and its arguments;
                        \* SpecLocal: the arguments of Local.generate

vars == <<batch_size, log_prob, verbose, generation_kwargs, record, samples,
          data, batches, pc, task, sem_value, sem_waiters, n_calls, results,
          logged, returned, response, client, earlier, call>>

config ==
    <<batch_size, log_prob, verbose, record, response, client, earlier, call>>

Tasks == DOMAIN task

\* Classifier.__init__ and the record given to __call__
Init ==
    /\ batch_size \in 1..MaxBatchSize
    /\ log_prob \in BOOLEAN
    /\ verbose \in BOOLEAN
    /\ generation_kwargs = [logprobs |-> FALSE, top_logprobs |-> 0,
                            concurrencyLimit |-> 0]
    /\ record \in {[n_random |-> r, n_test |-> t] :
                     r \in 0..MaxSamples, t \in 0..MaxSamples}
    /\ record.n_random + record.n_test <= MaxSamples
    /\ samples = <<>>
    /\ data = <<>>
    /\ batches = <<>>
    /\ pc = "prepare"
    /\ task = <<>>
    /\ sem_value = 0
    /\ sem_waiters = <<>>
    /\ n_calls = <<>>
    /\ results = <<>>
    /\ logged = <<>>
    /\ returned = <<>>
    /\ response = Raised
    /\ client = <<>>
    /\ earlier = <<>>
    /\ call = <<>>

\* samples = self._prepare(record)
Prepare ==
    /\ pc = "prepare"
    /\ samples' = PreparedSamples(record.n_random, record.n_test)
    /\ data' = PreparedData(record.n_random, record.n_test)
    /\ pc' = "shuffle"
    /\ UNCHANGED <<config, generation_kwargs, batches, task, sem_value,
                   sem_waiters, n_calls, results, logged, returned>>

\* random.shuffle(samples)
Shuffle ==
    /\ pc = "shuffle"
    /\ samples' \in Shuffles(samples)
    /\ pc' = "batch"
    /\ UNCHANGED <<config, generation_kwargs, data, batches, task, sem_value,
                   sem_waiters, n_calls, results, logged, returned>>

\* samples = self._batch(samples)
Batch ==
    /\ pc = "batch"
    /\ batches' = _batch(samples, batch_size)
    /\ pc' = "query"
    /\ UNCHANGED <<config, generation_kwargs, samples, data, task, sem_value,
                   sem_waiters, n_calls, results, logged, returned>>

\* _query up to the gather: the semaphore and one task per batch
Query ==
    /\ pc = "query"
    /\ sem_value' = SemCapacity
    /\ sem_waiters' = <<>>
    /\ task' = [t \in DOMAIN batches |-> "created"]
    /\ n_calls' = [t \in DOMAIN batches |-> 0]
    /\ results' = [t \in DOMAIN batches |-> <<>>]
    /\ logged' = [t \in DOMAIN batches |-> NoError]
    /\ pc' = "gather"
    /\ UNCHANGED <<config, generation_kwargs, samples, data, batches, returned>>

\* A semaphore that is never locked
LockedNever == FALSE

\* Locked with the free slots counted one too far
LockedBelowZero == sem_value < 0 \/ sem_waiters # <<>>

\* sem.locked(): no free slot, or somebody is already waiting
Locked == sem_value = 0 \/ sem_waiters # <<>>

\* The keys _generate sets before the call (lines 86-88)
KwargsOfCall ==
    IF log_prob
    THEN [generation_kwargs EXCEPT !.logprobs = TRUE,
                                   !.top_logprobs = TopLogprobs]
    ELSE generation_kwargs

\* The first step of task t, taken in creation order (the loop's ready queue
\* is first in, first out): `async with sem` admits it, and it runs _generate
\* up to the await of client.generate, or it queues on the semaphore.
Enter(t) ==
    /\ pc = "gather"
    /\ task[t] = "created"
    /\ \A u \in Tasks : u < t => task[u] # "created"
    /\ IF Locked
       THEN /\ sem_waiters' = Append(sem_waiters, t)
            /\ task' = [task EXCEPT ![t] = "waiting"]
            /\ UNCHANGED <<sem_value, generation_kwargs, n_calls>>
       ELSE /\ sem_value' = sem_value - 1
            /\ task' = [task EXCEPT ![t] = "calling"]
            /\ generation_kwargs' = KwargsOfCall
            /\ n_calls' = [n_calls EXCEPT ![t] = @ + 1]
            /\ UNCHANGED sem_waiters
    /\ UNCHANGED <<config, samples, data, batches, pc, results, logged,
                   returned>>

\* A task the semaphore woke runs on: it holds the slot it was handed and runs
\* _generate up to the await of client.generate.
Proceed(t) ==
    /\ pc = "gather"
    /\ task[t] = "woken"
    /\ task' = [task EXCEPT ![t] = "calling"]
    /\ generation_kwargs' = KwargsOfCall
    /\ n_calls' = [n_calls EXCEPT ![t] = @ + 1]
    /\ UNCHANGED <<config, samples, data, batches, pc, sem_value, sem_waiters,
                   results, logged, returned>>

\* A release that wakes the task that came last
WokenLast ==
    IF sem_waiters = <<>> THEN {} ELSE {sem_waiters[Len(sem_waiters)]}

\* A release that wakes nobody
WokenNobody == {}

\* sem.release(): the slot goes to the longest waiting task, if there is one
ReleasedValue == IF sem_waiters = <<>> THEN sem_value + 1 ELSE sem_value
ReleasedWaiters == IF sem_waiters = <<>> THEN <<>> ELSE Tail(sem_waiters)
Woken == IF sem_waiters = <<>> THEN {} ELSE {Head(sem_waiters)}

\* The rest of _generate once the call gave `outcome` (lines 91-123): the
\* objects written and the list returned, or the exception that leaves it.
Generated(t, outcome) ==
    LET p == Predicted(outcome, batch_size, log_prob)
    IN IF p.escaped # NoException
       THEN /\ task' = [u \in Tasks |-> IF u = t THEN "failed"
                                         ELSE IF u \in Woken THEN "woken"
                                         ELSE task[u]]
            /\ UNCHANGED <<data, results, logged>>
       ELSE /\ task' = [u \in Tasks |-> IF u = t THEN "done"
                                         ELSE IF u \in Woken THEN "woken"
                                         ELSE task[u]]
            /\ data' = GenerateData(data, batches[t], p, verbose)
            /\ results' = [results EXCEPT ![t] = GenerateResults(batches[t], p)]
            /\ logged' = [logged EXCEPT ![t] = p.error]

\* Complete with a second call of client.generate when the first one raised
CompleteRetrying(t) ==
    /\ pc = "gather"
    /\ task[t] = "calling"
    /\ response' \in ClientOutcomes(generation_kwargs)
    /\ IF response'.raised # NoException /\ n_calls[t] = 1
       THEN /\ n_calls' = [n_calls EXCEPT ![t] = @ + 1]
            /\ UNCHANGED task
       ELSE /\ task' = [task EXCEPT ![t] = "completed"]
            /\ UNCHANGED n_calls
    /\ UNCHANGED <<batch_size, log_prob, verbose, record, client, earlier, call,
                   generation_kwargs,
                   samples, data, batches, pc, sem_value, sem_waiters,
                   results, logged, returned>>

\* client.generate of task t returns or raises (the await of lines 89-90 is
\* over); the task is ready and still inside `async with sem`.
Complete(t) ==
    /\ pc = "gather"
    /\ task[t] = "calling"
    /\ response' \in ClientOutcomes(generation_kwargs)
    /\ task' = [task EXCEPT ![t] = "completed"]
    /\ UNCHANGED <<batch_size, log_prob, verbose, record, client, earlier, call,
                   generation_kwargs,
                   samples, data, batches, pc, sem_value, sem_waiters,
                   n_calls, results, logged, returned>>

\* The task whose call completed runs on: the rest of _generate (parse,
\* assemble), the return of its results and the exit of `async with`, which
\* releases the semaphore also when an exception passes through it. The
\* local `response` goes with the frame of _generate.
Resume(t) ==
    /\ pc = "gather"
    /\ task[t] = "completed"
    /\ Generated(t, response)
    /\ response' = Raised
    /\ sem_value' = ReleasedValue
    /\ sem_waiters' = ReleasedWaiters
    /\ UNCHANGED <<batch_size, log_prob, verbose, record, client, earlier, call,
                   generation_kwargs,
                   samples, batches, pc, n_calls, returned>>

\* Gathered with the results of the last task first
GatheredReversed == [t \in Tasks |-> results[Len(results) + 1 - t]]

\* results = await asyncio.gather(*tasks): the results in task order
Gathered == [t \in Tasks |-> results[t]]

\* return sum(results, []), or the exception of a task that gather re-raises
Return ==
    /\ pc = "gather"
    /\ \A t \in Tasks : task[t] \in {"done", "failed"}
    /\ IF \E t \in Tasks : task[t] = "failed"
       THEN pc' = "raised" /\ UNCHANGED returned
       ELSE pc' = "returned" /\ returned' = Flatten(Gathered)
    /\ UNCHANGED <<config, generation_kwargs, samples, data, batches, task,
                   sem_value, sem_waiters, n_calls, results, logged>>

Next ==
    \/ Prepare
    \/ Shuffle
    \/ Batch
    \/ Query
    \/ \E t \in Tasks : Enter(t)
    \/ \E t \in Tasks : Proceed(t)
    \/ \E t \in Tasks : Complete(t)
    \/ \E t \in Tasks : Resume(t)
    \/ Return

Spec == Init /\ [][Next]_vars

\* ---------------------------------------------------------------- SpecText
\* _generate applied to one batch of a scorer without log-probabilities, for
\* every response text of up to MaxTextLen characters of Chars.

InitText ==
    /\ batch_size \in 1..MaxBatchSize
    /\ log_prob = FALSE
    /\ verbose = FALSE
    /\ generation_kwargs = [logprobs |-> FALSE, top_logprobs |-> 0,
                            concurrencyLimit |-> 0]
    /\ record \in {[n_random |-> 0, n_test |-> n] : n \in 1..MaxBatchSize}
    /\ record.n_test <= batch_size
    /\ samples = PreparedSamples(record.n_random, record.n_test)
    /\ data = PreparedData(record.n_random, record.n_test)
    /\ batches = <<samples>>
    /\ pc = "gather"
    /\ task = <<"calling">>
    /\ sem_value = SemCapacity - 1
    /\ sem_waiters = <<>>
    /\ n_calls = <<1>>
    /\ results = <<<<>>>>
    /\ logged = <<NoError>>
    /\ returned = <<>>
    /\ response \in {Response(text, NoLogprobs) :
                        text \in SeqsUpTo(Chars, MaxTextLen)}
    /\ client = <<>>
    /\ earlier = <<>>
    /\ call = <<>>

\* The call returns `response` and the task runs the rest of _generate
GenerateText ==
    /\ pc = "gather"
    /\ task[1] = "calling"
    /\ Generated(1, response)
    /\ sem_value' = ReleasedValue
    /\ sem_waiters' = ReleasedWaiters
    /\ UNCHANGED <<config, generation_kwargs, samples, batches, pc, n_calls,
                   returned>>

NextText == GenerateText \/ Return

SpecText == InitText /\ [][NextText]_vars

\* ------------------------------------------------------------ SpecLogprobs
\* _generate applied to one batch of a scorer with log_prob set, for every
\* list of labels as the text and every stream of up to MaxStreamLen token
\* entries of TokenEntries.

\* "1" with alternatives "1" (0.8) and "10" (0.2)
OneOrTenToken ==
    Token(<<"1">>, <<Alternative(<<"1">>, "ln(0.8)"),
                     Alternative(<<"1", "0">>, "ln(0.2)")>>)
\* "0" with alternatives "0" (0.8) and "1" (0.2)
MostlyZeroToken ==
    Token(<<"0">>, <<Alternative(<<"0">>, "ln(0.8)"),
                     Alternative(<<"1">>, "ln(0.2)")>>)
\* "0" whose alternatives "0" and "1" have probability 0
NeverToken ==
    Token(<<"0">>, <<Alternative(<<"0">>, "-inf"),
                     Alternative(<<"1">>, "-inf")>>)

TokenEntries ==
    {BracketToken, OneToken, ZeroToken, OneOrTenToken, MostlyZeroToken,
     NeverToken}

\* The lists of up to MaxBatchSize labels 0 and 1, as texts
BinaryListTexts ==
    {ListText(labels) :
        labels \in UNION {[1..n -> {"0", "1"}] : n \in 1..MaxBatchSize}}

InitLogprobs ==
    /\ batch_size \in 1..MaxBatchSize
    /\ log_prob = TRUE
    /\ verbose = FALSE
    /\ generation_kwargs = [logprobs |-> TRUE, top_logprobs |-> TopLogprobs,
                            concurrencyLimit |-> 0]
    /\ record \in {[n_random |-> 0, n_test |-> n] : n \in 1..MaxBatchSize}
    /\ record.n_test <= batch_size
    /\ samples = PreparedSamples(record.n_random, record.n_test)
    /\ data = PreparedData(record.n_random, record.n_test)
    /\ batches = <<samples>>
    /\ pc = "gather"
    /\ task = <<"calling">>
    /\ sem_value = SemCapacity - 1
    /\ sem_waiters = <<>>
    /\ n_calls = <<1>>
    /\ results = <<<<>>>>
    /\ logged = <<NoError>>
    /\ returned = <<>>
    /\ response \in {Response(text, Logprobs(stream)) :
                        text \in BinaryListTexts,
                        stream \in SeqsUpTo(TokenEntries, MaxStreamLen)}
    /\ client = <<>>
    /\ earlier = <<>>
    /\ call = <<>>

NextLogprobs == GenerateText \/ Return

SpecLogprobs == InitLogprobs /\ [][NextLogprobs]_vars

\* ------------------------------------------------------------- SpecPrepare
\* RecallScorer._prepare applied to a record of random examples and of test
\* groups.

\* examples_to_samples(examples, distance, ground_truth, tokenizer): one
\* Sample per example, in order, with the text rendered from the example and
\* a ClassifierOutput of the given distance and ground truth as its data
examples_to_samples(examples, distance, ground_truth) ==
    [k \in DOMAIN examples |->
        [text |-> SampleText(examples[k]),
         data |-> ClassifierOutput(distance, ground_truth)]]

\* _prepare with the index of enumerate as the distance
PrepareZeroIndexed(rec) ==
    examples_to_samples(rec.random_examples, -1, FALSE)
    \o Flatten([g \in DOMAIN rec.test |->
                   examples_to_samples(rec.test[g], g - 1, TRUE)])

\* RecallScorer._prepare: enumerate counts from 0, so that the g-th group of
\* record.test has i = g - 1 and distance i + 1
_prepare(rec) ==
    examples_to_samples(rec.random_examples, -1, FALSE)
    \o Flatten([g \in DOMAIN rec.test |->
                   examples_to_samples(rec.test[g], (g - 1) + 1, TRUE)])

\* The examples of a record: j-th random example, j-th example of group g
RandomExample(j) == <<"random", j>>
TestExample(g, j) == <<"test", g, j>>

\* The records with the given number of random examples and group sizes
RecordOf(n_random, sizes) ==
    [random_examples |-> [j \in 1..n_random |-> RandomExample(j)],
     test |-> [g \in DOMAIN sizes |->
                 [j \in 1..sizes[g] |-> TestExample(g, j)]]]

InitPrepare ==
    /\ batch_size \in 1..MaxBatchSize
    /\ log_prob = FALSE
    /\ verbose = FALSE
    /\ generation_kwargs = [logprobs |-> FALSE, top_logprobs |-> 0,
                            concurrencyLimit |-> 0]
    /\ record \in {RecordOf(n, sizes) :
                     n \in 0..MaxSamples,
                     sizes \in SeqsUpTo(0..MaxGroupSize, MaxGroups)}
    /\ samples = <<>>
    /\ data = <<>>
    /\ batches = <<>>
    /\ pc = "prepare"
    /\ task = <<>>
    /\ sem_value = 0
    /\ sem_waiters = <<>>
    /\ n_calls = <<>>
    /\ results = <<>>
    /\ logged = <<>>
    /\ returned = <<>>
    /\ response = Raised
    /\ client = <<>>
    /\ earlier = <<>>
    /\ call = <<>>

\* samples = self._prepare(record) of a RecallScorer: the k-th sample and
\* its data object
PrepareRecall ==
    /\ pc = "prepare"
    /\ samples' = [k \in DOMAIN _prepare(record) |->
                     [id |-> k, text |-> _prepare(record)[k].text]]
    /\ data' = [k \in DOMAIN _prepare(record) |-> _prepare(record)[k].data]
    /\ pc' = "shuffle"
    /\ UNCHANGED <<config, generation_kwargs, batches, task, sem_value,
                   sem_waiters, n_calls, results, logged, returned>>

NextPrepare == PrepareRecall

SpecPrepare == InitPrepare /\ [][NextPrepare]_vars

\* --------------------------------------------------------------- SpecTwice
\* _query called twice over the same batches of an unshuffled sample list,
\* with a client that answers the prompt of a batch always in the same way.

\* The answers of the stub client: it raises, or it returns a list of one
\* or of two labels, with a stream of two digits when asked for one
StubOutcomes(kwargs) ==
    {Raised,
     Response(ListText(<<"1">>), NoLogprobs),
     Response(ListText(<<"1", "0">>), NoLogprobs)}
    \cup (IF kwargs.logprobs
          THEN {Response(ListText(<<"1">>),
                         Logprobs(<<BracketToken, OneToken, ZeroToken>>)),
                Response(ListText(<<"1", "0">>),
                         Logprobs(<<BracketToken, OneToken, ZeroToken>>))}
          ELSE {})

InitTwice ==
    /\ batch_size \in 1..MaxBatchSize
    /\ log_prob \in BOOLEAN
    /\ verbose \in BOOLEAN
    /\ generation_kwargs = [logprobs |-> FALSE, top_logprobs |-> 0,
                            concurrencyLimit |-> 0]
    /\ record \in {[n_random |-> r, n_test |-> MaxSamples - r] :
                     r \in 0..MaxSamples}
    /\ samples = PreparedSamples(record.n_random, record.n_test)
    /\ data = PreparedData(record.n_random, record.n_test)
    /\ batches = _batch(samples, batch_size)
    /\ pc = "query"
    /\ task = <<>>
    /\ sem_value = 0
    /\ sem_waiters = <<>>
    /\ n_calls = <<>>
    /\ results = <<>>
    /\ logged = <<>>
    /\ returned = <<>>
    /\ response = Raised
    /\ client \in [DOMAIN batches -> StubOutcomes(KwargsOfCall)]
    /\ earlier = <<>>
    /\ call = <<>>

\* client.generate of task t gives what the stub answers to its prompt
CompleteStub(t) ==
    /\ pc = "gather"
    /\ task[t] = "calling"
    /\ client[t] \in StubOutcomes(generation_kwargs)
    /\ response' = client[t]
    /\ task' = [task EXCEPT ![t] = "completed"]
    /\ UNCHANGED <<batch_size, log_prob, verbose, record, client, earlier, call,
                   generation_kwargs, samples, data, batches, pc, sem_value,
                   sem_waiters, n_calls, results, logged, returned>>

\* The caller keeps the values of the outputs the first run returned and
\* calls _query again with the same batches
Again ==
    /\ pc = "returned"
    /\ earlier = <<>>
    /\ earlier' = <<[k \in DOMAIN returned |-> data[returned[k]]]>>
    /\ pc' = "query"
    /\ UNCHANGED <<batch_size, log_prob, verbose, record, client, response, call,
                   generation_kwargs, samples, data, batches, task, sem_value,
                   sem_waiters, n_calls, results, logged, returned>>

NextTwice ==
    \/ Query
    \/ \E t \in Tasks : Enter(t)
    \/ \E t \in Tasks : Proceed(t)
    \/ \E t \in Tasks : CompleteStub(t)
    \/ \E t \in Tasks : Resume(t)
    \/ Return
    \/ Again

SpecTwice == InitTwice /\ [][NextTwice]_vars

\* ------------------------------------------------------------ SpecSamplers
\* The samplers of features/samplers.py applied to the examples of a record.
\* An example is [id |-> its place in record.examples, max_activation |-> a].

Examples(activations) ==
    [i \in DOMAIN activations |->
        [id |-> i, max_activation |-> activations[i]]]

\* A function that raised, and one that returned `value`
Raises(cls) == [raised |-> cls, value |-> <<>>]
Returns(value) == [raised |-> NoException, value |-> value]

\* The quantile of split_activation_quantiles an example goes to: the first
\* i of range(1, n_quantiles) with max_activation <= max * i / n_quantiles
\* (the for ... break), or the last one (the else of the for)
QuantileOf(activation, max_activation, n_quantiles) ==
    LET below == {i \in 1..(n_quantiles - 1) :
                    activation * n_quantiles <= max_activation * i}
    IN IF below # {} THEN CHOOSE i \in below : \A j \in below : i <= j
       ELSE n_quantiles

\* split_activation_quantiles: examples[0] of no examples is an IndexError
split_activation_quantiles(examples, n_quantiles) ==
    IF examples = <<>> THEN Raises("IndexError")
    ELSE Returns([q \in 1..n_quantiles |->
            SelectSeq(examples,
                      LAMBDA e : QuantileOf(e.max_activation,
                                            examples[1].max_activation,
                                            n_quantiles) = q)])

\* split_quantiles: n_quantiles slices of len(examples) // n_quantiles
split_quantiles(examples, n_quantiles) ==
    LET quantile_size == Len(examples) \div n_quantiles
    IN [q \in 1..n_quantiles |->
          SubSeq(examples, (q - 1) * quantile_size + 1, q * quantile_size)]

\* check_quantile raises ValueError: TRUE when it raises
check_quantile(quantile, n_test) == Len(quantile) < n_test

\* random.sample(population, k): k examples of distinct places, in any
\* order; a ValueError when k is larger than the population
SampleRaises(population, k) == k > Len(population)
random_sample(population, k) ==
    {[i \in 1..k |-> population[f[i]]] :
        f \in {g \in [1..k -> DOMAIN population] :
                 \A i, j \in 1..k : g[i] = g[j] => i = j}}

\* examples[:n] and examples[n:]
SliceTo(examples, n) == SubSeq(examples, 1, Min(n, Len(examples)))
SliceFrom(examples, n) == SubSeq(examples, Min(n, Len(examples)) + 1,
                                 Len(examples))

\* The loop over the test quantiles: check_quantile, then random.sample
LoopRaises(quantiles, n_test) ==
    \E q \in DOMAIN quantiles :
        check_quantile(quantiles[q], n_test)
        \/ SampleRaises(quantiles[q], n_test)
RECURSIVE LoopSamples(_, _)
LoopSamples(quantiles, n_test) ==
    IF quantiles = <<>> THEN {<<>>}
    ELSE {<<head>> \o tail :
            head \in random_sample(Head(quantiles), n_test),
            tail \in LoopSamples(Tail(quantiles), n_test)}

\* What a sampler does: it raises, or it sets record.train and record.test
SamplerRaises(cls) == [raised |-> cls, train |-> <<>>, test |-> <<>>]
SamplerReturns(train, test) ==
    [raised |-> NoException, train |-> train, test |-> test]

random_and_activation_quantiles(examples, n_train, n_test, n_quantiles) ==
    LET split == split_activation_quantiles(examples, n_quantiles)
    IN IF split.raised # NoException THEN {SamplerRaises(split.raised)}
       ELSE IF SampleRaises(split.value[1], n_train)
       THEN {SamplerRaises("ValueError")}
       ELSE IF LoopRaises(Tail(split.value), n_test)
       THEN {SamplerRaises("ValueError")}
       ELSE {SamplerReturns(train, test) :
               train \in random_sample(split.value[1], n_train),
               test \in LoopSamples(Tail(split.value), n_test)}

top_and_activation_quantiles(examples, n_train, n_test, n_quantiles) ==
    LET split == split_activation_quantiles(SliceFrom(examples, n_train),
                                            n_quantiles)
    IN IF split.raised # NoException THEN {SamplerRaises(split.raised)}
       ELSE IF LoopRaises(split.value, n_test)
       THEN {SamplerRaises("ValueError")}
       ELSE {SamplerReturns(SliceTo(examples, n_train), test) :
               test \in LoopSamples(split.value, n_test)}

\* top_and_quantiles that takes the first n_test examples of each quantile,
\* or all of a shorter one, without check_quantile
TopAndQuantilesUnchecked(examples, n_train, n_test, n_quantiles) ==
    LET quantiles == split_quantiles(SliceFrom(examples, n_train),
                                     n_quantiles)
    IN {SamplerReturns(SliceTo(examples, n_train),
                       [q \in DOMAIN quantiles |->
                          SliceTo(quantiles[q], n_test)])}

top_and_quantiles(examples, n_train, n_test, n_quantiles) ==
    LET quantiles == split_quantiles(SliceFrom(examples, n_train),
                                     n_quantiles)
    IN IF LoopRaises(quantiles, n_test) THEN {SamplerRaises("ValueError")}
       ELSE {SamplerReturns(SliceTo(examples, n_train), test) :
               test \in LoopSamples(quantiles, n_test)}

Samplers ==
    {"random_and_activation_quantiles", "top_and_activation_quantiles",
     "top_and_quantiles"}

\* The outcomes of the call `c` on the examples
Sampled(c, examples) ==
    CASE c.sampler = "random_and_activation_quantiles" ->
           random_and_activation_quantiles(examples, c.n_train, c.n_test,
                                           c.n_quantiles)
      [] c.sampler = "top_and_activation_quantiles" ->
           top_and_activation_quantiles(examples, c.n_train, c.n_test,
                                        c.n_quantiles)
      [] c.sampler = "top_and_quantiles" ->
           top_and_quantiles(examples, c.n_train, c.n_test, c.n_quantiles)

InitSamplers ==
    /\ batch_size = 1
    /\ log_prob = FALSE
    /\ verbose = FALSE
    /\ generation_kwargs = [logprobs |-> FALSE, top_logprobs |-> 0,
                            concurrencyLimit |-> 0]
    /\ record \in {[examples |-> Examples(activations),
                     train |-> <<>>, test |-> <<>>] :
                     activations \in SeqsUpTo(1..MaxActivation, MaxExamples)}
    /\ call \in [sampler : Samplers, n_train : 0..MaxTrain,
                  n_test : 0..MaxGroupSize, n_quantiles : 1..MaxGroups]
    /\ samples = <<>>
    /\ data = <<>>
    /\ batches = <<>>
    /\ pc = "sample"
    /\ task = <<>>
    /\ sem_value = 0
    /\ sem_waiters = <<>>
    /\ n_calls = <<>>
    /\ results = <<>>
    /\ logged = <<>>
    /\ returned = <<>>
    /\ response = Raised
    /\ client = <<>>
    /\ earlier = <<>>

\* The sampler runs: it raises and leaves the record as it was, or it sets
\* record.train and record.test
Sample ==
    /\ pc = "sample"
    /\ \E outcome \in Sampled(call, record.examples) :
         IF outcome.raised # NoException
         THEN pc' = "raised" /\ UNCHANGED record
         ELSE /\ pc' = "sampled"
              /\ record' = [record EXCEPT !.train = outcome.train,
                                           !.test = outcome.test]
    /\ UNCHANGED <<batch_size, log_prob, verbose, response, client, earlier,
                   call, generation_kwargs, samples, data, batches, task,
                   sem_value, sem_waiters, n_calls, results, logged, returned>>

NextSamplers == Sample

SpecSamplers == InitSamplers /\ [][NextSamplers]_vars

\* --------------------------------------------------------------- SpecLimit
\* _query of a scorer constructed with the keyword concurrencyLimit, which
\* __init__ takes into **generation_kwargs (lines 25 and 32), over the
\* batches of an unshuffled sample list.

InitLimit ==
    /\ batch_size \in 1..MaxBatchSize
    /\ log_prob = FALSE
    /\ verbose = FALSE
    /\ generation_kwargs \in
         {[logprobs |-> FALSE, top_logprobs |-> 0, concurrencyLimit |-> n] :
            n \in 1..MaxLimit}
    /\ record \in {[n_random |-> 0, n_test |-> n] : n \in 0..MaxSamples}
    /\ samples = PreparedSamples(record.n_random, record.n_test)
    /\ data = PreparedData(record.n_random, record.n_test)
    /\ batches = _batch(samples, batch_size)
    /\ pc = "query"
    /\ task = <<>>
    /\ sem_value = 0
    /\ sem_waiters = <<>>
    /\ n_calls = <<>>
    /\ results = <<>>
    /\ logged = <<>>
    /\ returned = <<>>
    /\ response = Raised
    /\ client = <<>>
    /\ earlier = <<>>
    /\ call = <<>>

NextLimit ==
    \/ Query
    \/ \E t \in Tasks : Enter(t)
    \/ \E t \in Tasks : Proceed(t)
    \/ \E t \in Tasks : Complete(t)
    \/ \E t \in Tasks : Resume(t)
    \/ Return

SpecLimit == InitLimit /\ [][NextLimit]_vars

\* ---------------------------------------------------------------- SpecLive
\* _query over the batches of an unshuffled sample list, with the scheduling
\* of the event loop: a task that is ready runs, and every call of
\* client.generate returns or raises in the end.

InitLive ==
    /\ batch_size \in 1..MaxBatchSize
    /\ log_prob \in BOOLEAN
    /\ verbose = FALSE
    /\ generation_kwargs = [logprobs |-> FALSE, top_logprobs |-> 0,
                            concurrencyLimit |-> 0]
    /\ record \in {[n_random |-> 0, n_test |-> n] : n \in 0..MaxSamples}
    /\ samples = PreparedSamples(record.n_random, record.n_test)
    /\ data = PreparedData(record.n_random, record.n_test)
    /\ batches = _batch(samples, batch_size)
    /\ pc = "query"
    /\ task = <<>>
    /\ sem_value = 0
    /\ sem_waiters = <<>>
    /\ n_calls = <<>>
    /\ results = <<>>
    /\ logged = <<>>
    /\ returned = <<>>
    /\ response = Raised
    /\ client = <<>>
    /\ earlier = <<>>
    /\ call = <<>>

NextLive ==
    \/ Query
    \/ \E t \in Tasks : Enter(t)
    \/ \E t \in Tasks : Proceed(t)
    \/ \E t \in Tasks : Complete(t)
    \/ \E t \in Tasks : Resume(t)
    \/ Return

\* A task whose call has completed is ready to run on: what
\* ENABLED <<\E t \in Tasks : Resume(t)>>_vars comes to
ResumeEnabled == pc = "gather" /\ \E t \in Tasks : task[t] = "completed"

\* Weak fairness of every step of _query; that of Resume is written out with
\* ResumeEnabled in the place of ENABLED.
Fairness ==
    /\ WF_vars(Query)
    /\ WF_vars(\E t \in Tasks : Enter(t))
    /\ WF_vars(\E t \in Tasks : Proceed(t))
    /\ WF_vars(\E t \in Tasks : Complete(t))
    /\ \/ []<>(~ResumeEnabled)
       \/ []<><<\E t \in Tasks : Resume(t)>>_vars
    /\ WF_vars(Return)

SpecLive == InitLive /\ [][NextLive]_vars /\ Fairness

\* --------------------------------------------------------------- SpecLocal
\* Local.generate of clients/local.py: results holds what each call of
\* self.client.chat.completions.create did, n_calls[1] counts them, logged
\* holds the levels of the log records, returned the value returned.

\* What one call of chat.completions.create does: it returns a completion
\* with one choice or with none, or it raises
Completion(choices) == [raised |-> NoException, choices |-> choices]
BackendRaises(cls) == [raised |-> cls, choices |-> <<>>]
BackendOutcomes ==
    {Completion(<<"content">>), Completion(<<>>),
     BackendRaises("JSONDecodeError"), BackendRaises("APIError")}

\* Local.postprocess: response.choices[0].message.content; choices[0] of no
\* choices is an IndexError
postprocess(completion) ==
    IF completion.choices = <<>> THEN Raises("IndexError")
    ELSE Returns(completion.choices[1])

\* Lines 37-46: what the try block of one attempt comes to
Attempted(outcome, raw) ==
    IF outcome.raised # NoException THEN Raises(outcome.raised)
    ELSE IF raw THEN Returns(outcome)
    ELSE postprocess(outcome)

\* range(max_retries) that yields one attempt more
ExhaustedLate(attempts, max_retries) == attempts > max_retries

\* `for attempt in range(max_retries)` is over after max_retries attempts
Exhausted(attempts, max_retries) == attempts >= max_retries

InitLocal ==
    /\ batch_size = 1
    /\ log_prob = FALSE
    /\ verbose = FALSE
    /\ generation_kwargs = [logprobs |-> FALSE, top_logprobs |-> 0,
                            concurrencyLimit |-> 0]
    /\ record = <<>>
    /\ call \in [raw : BOOLEAN, max_retries : 0..MaxRetries]
    /\ samples = <<>>
    /\ data = <<>>
    /\ batches = <<>>
    /\ pc = "for"
    /\ task = <<>>
    /\ sem_value = 0
    /\ sem_waiters = <<>>
    /\ n_calls = <<0>>
    /\ results = <<>>
    /\ logged = <<>>
    /\ returned = <<>>
    /\ response = Raised
    /\ client = <<>>
    /\ earlier = <<>>

\* One attempt (lines 34-52): the call of the backend, and the return of
\* its result or the warning of the except clause that caught the exception
Attempt ==
    /\ pc = "for"
    /\ ~Exhausted(n_calls[1], call.max_retries)
    /\ \E outcome \in BackendOutcomes :
         /\ n_calls' = <<n_calls[1] + 1>>
         /\ results' = Append(results, outcome)
         /\ IF Attempted(outcome, call.raw).raised = NoException
            THEN /\ returned' = <<Attempted(outcome, call.raw).value>>
                 /\ pc' = "returned"
                 /\ UNCHANGED logged
            ELSE /\ logged' = Append(logged, "warning")
                 /\ pc' = "sleep"
                 /\ UNCHANGED returned
    /\ UNCHANGED <<batch_size, log_prob, verbose, record, response, client,
                   earlier, call, generation_kwargs, samples, data, batches,
                   task, sem_value, sem_waiters>>

\* await sleep(1) is over (line 54)
Slept ==
    /\ pc = "sleep"
    /\ pc' = "for"
    /\ UNCHANGED <<config, generation_kwargs, samples, data, batches, task,
                   sem_value, sem_waiters, n_calls, results, logged, returned>>

\* The loop is over (lines 56-57): the error is logged and RuntimeError
\* raised
GiveUp ==
    /\ pc = "for"
    /\ Exhausted(n_calls[1], call.max_retries)
    /\ logged' = Append(logged, "error")
    /\ pc' = "RuntimeError"
    /\ UNCHANGED <<config, generation_kwargs, samples, data, batches, task,
                   sem_value, sem_waiters, n_calls, results, returned>>

NextLocal == Attempt \/ Slept \/ GiveUp

SpecLocal == InitLocal /\ [][NextLocal]_vars

\* -------------------------------------------------------------- SpecBuffer
\* TensorBuffer and FeatureLoader._worker of features/loader.py: call holds
\* the arguments of the constructor and the content of the cached split,
\* data the buffer object, returned the items __next__ has returned, results
\* the list _worker builds.

FeatureIds == 0..MaxFeature

\* The number of rows of the split's locations whose column 2 is each feature
LocationCounts == {0, MinExamples, MinExamples + 1}

\* The features argument: None (_load_all) or a tensor of selected features
NoFeatures == [kind |-> "None", items |-> <<>>]
Selected(items) == [kind |-> "tensor", items |-> items]
SelectedFeatures ==
    {Selected(items) :
        items \in UNION {[1..n -> FeatureIds] : n \in 0..MaxSelected}}

RECURSIVE Ascending(_)
Ascending(S) ==
    IF S = {} THEN <<>>
    ELSE LET least == CHOOSE x \in S : \A y \in S : x <= y
         IN  <<least>> \o Ascending(S \ {least})

\* torch.unique(self.locations[:, 2]): the features that have a row, sorted
torch_unique(locations) ==
    Selected(Ascending({f \in DOMAIN locations : locations[f] > 0}))

\* What __next__ returns for a feature with more than the minimum of rows
BufferOutput(feature, locations) ==
    [kind |-> "BufferOutput", feature |-> feature, locations |-> locations]

\* What __next__ returns otherwise
NoOutput == [kind |-> "None", feature |-> 0, locations |-> 0]

\* mask.sum() < 120
BelowMinExamplesStrict(n) == n < MinExamples

\* mask.sum() <= 120 (line 64)
BelowMinExamples(n) == n <= MinExamples

\* FeatureLoader._process: the record of the item's feature
_process(item) == [feature |-> item.feature]

InitBuffer ==
    /\ batch_size = 1
    /\ log_prob = FALSE
    /\ verbose = FALSE
    /\ generation_kwargs = [logprobs |-> FALSE, top_logprobs |-> 0,
                            concurrencyLimit |-> 0]
    /\ record = <<>>
    /\ call \in [features : {NoFeatures} \cup SelectedFeatures,
                 locations : [FeatureIds -> LocationCounts]]
    /\ samples = <<>>
    /\ data = [features |-> call.features, start |-> 0, loaded |-> FALSE,
               locations |-> [f \in FeatureIds |-> 0]]
    /\ batches = <<>>
    /\ pc = "iter"
    /\ task = <<>>
    /\ sem_value = 0
    /\ sem_waiters = <<>>
    /\ n_calls = <<0>>
    /\ results = <<>>
    /\ logged = <<>>
    /\ returned = <<>>
    /\ response = Raised
    /\ client = <<>>
    /\ earlier = <<>>

\* TensorBuffer.__iter__ (lines 46-52), called by the loop of _worker
Iter ==
    /\ pc = "iter"
    /\ data' = [data EXCEPT
                  !.loaded = TRUE,
                  !.locations = call.locations,
                  !.features = IF data.features.kind = "None"
                               THEN torch_unique(call.locations)
                               ELSE data.features]
    /\ pc' = "next"
    /\ UNCHANGED <<config, generation_kwargs, samples, batches, task,
                   sem_value, sem_waiters, n_calls, results, logged,
                   returned>>

\* One round of the comprehension of _worker (lines 237-241): __next__
\* returns an item (lines 59-80) and a non-None item is processed
NextItem ==
    /\ pc = "next"
    /\ data.start < Len(data.features.items)
    /\ LET feature == data.features.items[data.start + 1]
           item == IF BelowMinExamples(data.locations[feature])
                   THEN NoOutput
                   ELSE BufferOutput(feature, data.locations[feature])
       IN  /\ data' = [data EXCEPT !.start = data.start + 1]
           /\ returned' = Append(returned, item)
           /\ results' = IF item.kind = "None" THEN results
                         ELSE Append(results, _process(item))
    /\ n_calls' = <<n_calls[1] + 1>>
    /\ UNCHANGED <<config, generation_kwargs, samples, batches, task,
                   sem_value, sem_waiters, logged, pc>>

\* __next__ raises StopIteration (lines 56-57) and _worker returns its list
StopIteration ==
    /\ pc = "next"
    /\ data.start >= Len(data.features.items)
    /\ n_calls' = <<n_calls[1] + 1>>
    /\ pc' = "returned"
    /\ UNCHANGED <<config, generation_kwargs, samples, data, batches, task,
                   sem_value, sem_waiters, results, logged, returned>>

NextBuffer == Iter \/ NextItem \/ StopIteration

SpecBuffer == InitBuffer /\ [][NextBuffer]_vars

\* -------------------------------------------------------------- properties

\* The tasks whose client.generate call has started and not completed
InFlight == {t \in Tasks : task[t] = "calling"}

\* The ClassifierOutput objects a list of references holds
Outputs(refs) == [k \in DOMAIN refs |-> data[refs[k]]]

\* The objects of the samples of a batch, in batch order
BatchOutputs(t) == [k \in DOMAIN batches[t] |-> data[batches[t][k].id]]

\* The references to the objects of the samples of a list, in list order
Refs(list) == [k \in DOMAIN list |-> list[k].id]

\* The number of results of the tasks before t
RECURSIVE Offset(_)
Offset(t) == IF t = 1 THEN 0 ELSE Offset(t - 1) + Len(results[t - 1])

\* C1: in every reachable state of _query, the number of client.generate
\* calls that have started and not yet completed is at most the capacity of
\* the semaphore.
C1_InFlightAtMostCapacity == Cardinality(InFlight) <= SemCapacity

\* C1 witness: a call is in flight while another batch waits for admission.
C1_Witness ==
    \E t, u \in Tasks : task[t] = "calling" /\ task[u] = "waiting"

\* C2, in every state: _query has not raised; a batch whose call raised (the
\* error logged at line 92) is done, and every one of its samples has an
\* output with prediction -1; once _query has returned, every batch has had
\* its call issued exactly once and the list returned holds the outputs of
\* the batches in batch order.
C2_RaiseContainedState ==
    /\ pc # "raised"
    /\ \A t \in Tasks :
         logged[t] = "generate" =>
            /\ task[t] = "done"
            /\ results[t] = Refs(batches[t])
            /\ \A k \in DOMAIN batches[t] : BatchOutputs(t)[k].prediction = -1
    /\ pc = "returned" =>
         /\ \A t \in Tasks : task[t] = "done" /\ n_calls[t] = 1
         /\ returned = Refs(Flatten(batches))

\* C2, in every step: the results and the outputs of a batch that is done
\* are left as they are by whatever happens to the other batches.
C2_RaiseContainedStep ==
    \A t \in Tasks :
        task[t] = "done" =>
            /\ results'[t] = results[t]
            /\ \A k \in DOMAIN batches[t] :
                 data'[batches[t][k].id] = data[batches[t][k].id]

\* C2: when the client call of one batch raises, _query does not raise, every
\* sample of that batch gets an output with prediction -1, and every other
\* batch still has its call issued and its own results returned unchanged, in
\* batch order.
C2_RaiseContained ==
    [](C2_RaiseContainedState) /\ [][C2_RaiseContainedStep]_vars

\* C2 witness: _query has returned for three batches of which the second
\* raised and the first and the third did not.
C2_Witness ==
    /\ pc = "returned"
    /\ Len(batches) = 3
    /\ logged[1] = NoError /\ logged[2] = "generate" /\ logged[3] = NoError

\* C3: the list _query returns is the concatenation of the result lists of
\* the batches in batch order: the k-th result of batch t is at place
\* Offset(t) + k.
C3_ConcatenationInBatchOrder ==
    pc = "returned" =>
        /\ Len(returned) = Offset(Len(results) + 1)
        /\ \A t \in Tasks : \A k \in DOMAIN results[t] :
             returned[Offset(t) + k] = results[t][k]

\* C3 witness: _query has returned the results of more than one batch.
C3_Witness ==
    /\ pc = "returned"
    /\ Len(batches) >= 2
    /\ \A t \in Tasks : results[t] # <<>>

\* C4: the output of _query has exactly one ClassifierOutput per sample, and
\* the k-th output is the object of the k-th sample of the shuffled list, with
\* the ground truth the sample was prepared with.
C4_OneOutputPerSample ==
    pc = "returned" =>
        /\ Len(returned) = Len(samples)
        /\ \A k \in DOMAIN samples :
             /\ returned[k] = samples[k].id
             /\ Outputs(returned)[k].ground_truth
                  = PreparedData(record.n_random, record.n_test)[samples[k].id]
                      .ground_truth

\* C4 witness: _query has returned for a short final batch after a full one,
\* where one batch failed and the other did not.
C4_Witness ==
    /\ pc = "returned"
    /\ Len(batches) = 2
    /\ Len(batches[2]) < batch_size
    /\ \E t, u \in Tasks : logged[t] = NoError /\ logged[u] # NoError

\* C5: _batch partitions the sample list: the chunks concatenated give the
\* list, every chunk but the last has batch_size samples, the last has
\* len(S) mod batch_size samples if that is not zero and batch_size otherwise,
\* and no chunk is empty.
C5_BatchPartitions ==
    pc \notin {"prepare", "shuffle", "batch"} =>
        /\ Flatten(batches) = samples
        /\ \A c \in DOMAIN batches :
             /\ batches[c] # <<>>
             /\ c < Len(batches) => Len(batches[c]) = batch_size
             /\ c = Len(batches) =>
                  Len(batches[c]) = (IF Len(samples) % batch_size # 0
                                     THEN Len(samples) % batch_size
                                     ELSE batch_size)
        /\ samples = <<>> => batches = <<>>

\* C5 witness: the list was split into a full chunk and a shorter last one.
C5_Witness ==
    /\ pc = "query"
    /\ Len(batches) = 2
    /\ Len(batches[1]) = batch_size
    /\ Len(batches[2]) < batch_size

\* ------------------------------------------- properties of one batch

\* The text and the batch of the one call of SpecText, and the state in
\* which its task has left _generate
TheText == response.text
TheBatch == batches[1]
Generated1 == pc = "gather" /\ task[1] # "calling"

\* The text has no "[" that a "]" follows on the same line
NoBracketedList(text) ==
    ~ \E i, j \in DOMAIN text :
        /\ i < j
        /\ text[i] = "[" /\ text[j] = "]"
        /\ \A k \in (i + 1)..(j - 1) : text[k] # LF

\* The integers a list of the texts of SpecText may hold, as written
LabelValues == {0, 1, 10, 11}
DecimalText(n) ==
    CASE n = 0 -> <<"0">> [] n = 1 -> <<"1">>
      [] n = 10 -> <<"1", "0">> [] n = 11 -> <<"1", "1">>

RECURSIVE Joined(_, _)
Joined(texts, separator) ==
    IF texts = <<>> THEN <<>>
    ELSE IF Len(texts) = 1 THEN Head(texts)
    ELSE Head(texts) \o separator \o Joined(Tail(texts), separator)

\* The list `values` written as a JSON array, with "," or ", " between
Written(values, separator) ==
    <<"[">> \o Joined([k \in DOMAIN values |-> DecimalText(values[k])],
                      separator) \o <<"]">>

\* The first bracketed list of the text is the JSON array of `values`: the
\* array is written from the first "[" of the text on.
FirstListIs(text, values) ==
    /\ Len(text) >= 2 * Len(values) + 1
    /\ \E i \in DOMAIN text :
         /\ text[i] = "["
         /\ \A j \in 1..(i - 1) : text[j] # "["
         /\ \E separator \in {<<",">>, <<",", " ">>} :
              LET written == Written(values, separator)
              IN /\ i + Len(written) - 1 <= Len(text)
                 /\ SubSeq(text, i, i + Len(written) - 1) = written

\* C6: when the response of a batch has no bracketed list, or its first
\* bracketed list is not JSON, or the list has not batch_size elements, no
\* exception leaves _generate and every sample of the batch gets prediction -1.
C6_ParseFailureContained ==
    (/\ Generated1
     /\ \/ NoBracketedList(TheText)
        \/ ~json_loads(re_search(TheText)).ok
        \/ Len(json_loads(re_search(TheText)).value) # batch_size)
    => /\ task[1] = "done"
       /\ results[1] = Refs(TheBatch)
       /\ \A k \in DOMAIN TheBatch : BatchOutputs(1)[k].prediction = -1

\* C6 witness: a batch of two samples whose response lists one integer has
\* been generated, and the parsing error was logged.
C6_Witness ==
    /\ Generated1
    /\ Len(TheBatch) = 2
    /\ TheText = <<"[", "1", "]">>
    /\ logged[1] = "parse"

\* C7: when log-probabilities are absent and the first bracketed list of the
\* text is a JSON integer array of batch_size elements, every sample of the
\* batch gets the integer at its own index as its prediction, and no
\* probability.
C7_WellFormedListParsed ==
    Generated1 =>
        \A values \in [1..batch_size -> LabelValues] :
            FirstListIs(TheText, values) =>
                /\ task[1] = "done"
                /\ logged[1] = NoError
                /\ \A k \in DOMAIN TheBatch :
                     /\ BatchOutputs(1)[k].prediction = values[k]
                     /\ BatchOutputs(1)[k].probability = None

\* C7 witness: the response "[1,0]" of a batch of two has been parsed.
C7_Witness ==
    /\ Generated1
    /\ batch_size = 2
    /\ Len(TheBatch) = 2
    /\ TheText = <<"[", "1", ",", "0", "]">>
    /\ BatchOutputs(1)[1].prediction = 1
    /\ BatchOutputs(1)[2].prediction = 0

\* C8: for every batch, also one shorter than batch_size, a response whose
\* first bracketed list holds len(batch) integers is parsed and every sample
\* of the batch gets the integer at its own index as its prediction.
C8_PromptedLengthParsed ==
    Generated1 =>
        \A values \in [1..Len(TheBatch) -> LabelValues] :
            FirstListIs(TheText, values) =>
                /\ task[1] = "done"
                /\ logged[1] = NoError
                /\ \A k \in DOMAIN TheBatch :
                     BatchOutputs(1)[k].prediction = values[k]

\* ------------------------------------- properties of the outputs

\* The batch the k-th returned output belongs to
BatchOf(ref) == CHOOSE t \in Tasks : \E k \in DOMAIN batches[t] :
                                          batches[t][k].id = ref

\* C9: every ClassifierOutput that _query returns has a prediction that is
\* 0, 1 or -1.
C9_PredictionIsLabel ==
    pc = "returned" =>
        \A k \in DOMAIN returned : Outputs(returned)[k].prediction \in {0, 1, -1}

\* C10: an output that _query returns carries a probability only if
\* log_prob is set and its batch was generated and parsed without error, and
\* a probability it carries lies in [0, 1].
C10_ProbabilityOnlyWhenScored ==
    pc = "returned" =>
        \A k \in DOMAIN returned :
            LET probability == Outputs(returned)[k].probability
            IN probability # None =>
                 /\ log_prob
                 /\ logged[BatchOf(returned[k])] = NoError
                 /\ probability.kind = "float"
                 /\ probability.den > 0
                 /\ 0 <= probability.num
                 /\ probability.num <= probability.den

\* C11: for every output that _query returns, correct is true when the
\* ground truth is true and the prediction is 1 or the ground truth is false
\* and the prediction is 0, and false otherwise, also when the prediction
\* is -1.
C11_CorrectIsEquality ==
    pc = "returned" =>
        \A k \in DOMAIN returned :
            LET output == Outputs(returned)[k]
            IN /\ output.correct
                    <=> \/ output.ground_truth /\ output.prediction = 1
                        \/ ~output.ground_truth /\ output.prediction = 0
               /\ output.prediction = -1 => ~output.correct

\* C11 witness: _query has returned a correct output for each ground truth
\* and an output with prediction -1.
C11_Witness ==
    /\ pc = "returned"
    /\ \E i, j, k \in DOMAIN returned :
         /\ Outputs(returned)[i].ground_truth
         /\ Outputs(returned)[i].prediction = 1
         /\ Outputs(returned)[i].correct
         /\ ~Outputs(returned)[j].ground_truth
         /\ Outputs(returned)[j].prediction = 0
         /\ Outputs(returned)[j].correct
         /\ Outputs(returned)[k].ground_truth
         /\ Outputs(returned)[k].prediction = -1
         /\ ~Outputs(returned)[k].correct

\* ------------------------------------------- properties of the admission

\* The tasks that were admitted and whose call has not completed
Admitted == {t \in Tasks : task[t] \in {"woken", "calling"}}

\* The tasks whose call has completed and whose response is not yet parsed
Completed == {t \in Tasks : task[t] = "completed"}

\* C12: the token of a batch is released when its call completes, before the
\* response is parsed: while a task whose call has completed has not yet
\* parsed, the free slots of the semaphore and the slots of the tasks that
\* were admitted and have not completed make up the whole capacity.
C12_ReleasedBeforeParsing ==
    (pc = "gather" /\ Completed # {}) =>
        sem_value + Cardinality(Admitted) = SemCapacity

\* The tasks inside `async with sem`: admitted and not yet through _generate
Holding == {t \in Tasks : task[t] \in {"woken", "calling", "completed"}}

\* C13: the capacity is the configured concurrencyLimit: a batch waits for
\* admission only while that many batches hold a token, so that with a limit
\* N > 1 and N batches pending N calls get in flight together.
C13_CapacityIsConfigured ==
    (pc = "gather" /\ \E t \in Tasks : task[t] = "waiting") =>
        Cardinality(Holding) >= generation_kwargs.concurrencyLimit

\* ------------------------------------ properties of the probabilities

\* The entries of a stream whose token holds "0" or "1", in stream order
DigitBearing(stream) ==
    SelectSeq(stream, LAMBDA e : In("0", e.token) \/ In("1", e.token))

\* The sum of the probabilities of all alternatives whose token holds c
SumContaining(top_logprobs, c) ==
    SumProb(top_logprobs,
            {top_logprobs[i].token : i \in {j \in DOMAIN top_logprobs :
                                              In(c, top_logprobs[j].token)}})

\* The float `probability` is the quotient num / den
IsQuotient(probability, num, den) ==
    /\ probability.kind = "float"
    /\ probability.num * den = num * probability.den

\* C14: the probability emitted for a token holding "0" or "1" is
\* p1 / (p0 + p1) if p0 + p1 > 0 and 0 otherwise, where p0 sums the
\* probabilities of all alternatives holding "0" and p1 those of all
\* alternatives holding "1"; the k-th sample gets the value of the k-th such
\* token of the stream.
C14_ProbabilityOfAllAlternatives ==
    (Generated1 /\ logged[1] = NoError) =>
        \A k \in DOMAIN TheBatch :
            LET top == DigitBearing(response.logprobs.stream)[k].top_logprobs
                p0 == SumContaining(top, "0")
                p1 == SumContaining(top, "1")
            IN IF p0 + p1 > 0
               THEN IsQuotient(BatchOutputs(1)[k].probability, p1, p0 + p1)
               ELSE IsQuotient(BatchOutputs(1)[k].probability, 0, 1)

\* C15: with log_prob set, when the number of tokens of the stream that hold
\* "0" or "1" differs from batch_size, the batch is a parse failure: no
\* exception leaves _generate, the error is logged and every sample of the
\* batch gets prediction -1, whatever the text was.
C15_StreamCountMismatchFails ==
    (/\ Generated1
     /\ log_prob
     /\ ~response.logprobs.none
     /\ Len(DigitBearing(response.logprobs.stream)) # batch_size)
    => /\ task[1] = "done"
       /\ logged[1] = "parse"
       /\ results[1] = Refs(TheBatch)
       /\ \A k \in DOMAIN TheBatch : BatchOutputs(1)[k].prediction = -1

\* C15 witness: a batch of two whose text is the valid list "[1, 0]" and
\* whose stream has three tokens holding a digit has been generated, and
\* both samples have prediction -1.
C15_Witness ==
    /\ Generated1
    /\ batch_size = 2
    /\ Len(TheBatch) = 2
    /\ TheText = ListText(<<"1", "0">>)
    /\ json_loads(re_search(TheText)).ok
    /\ Len(json_loads(re_search(TheText)).value) = batch_size
    /\ Len(DigitBearing(response.logprobs.stream)) = 3
    /\ \A k \in DOMAIN TheBatch : BatchOutputs(1)[k].prediction = -1

\* ---------------------------------------- properties of the preparation

\* The number of examples of the test groups before group g
RECURSIVE GroupOffset(_)
GroupOffset(g) ==
    IF g = 1 THEN 0 ELSE GroupOffset(g - 1) + Len(record.test[g - 1])

C17_OneCallPerBatch ==
    pc \in {"gather", "returned", "raised"} =>
        \A t \in Tasks :
            /\ n_calls[t] <= 1
            /\ task[t] \in {"calling", "completed", "done", "failed"}
                 => n_calls[t] = 1
            /\ task[t] \in {"created", "waiting", "woken"} => n_calls[t] = 0

\* C17 witness: _query has returned for three batches, of which one call
\* raised, one response failed to parse and one was parsed, and each has been
\* called once.
C17_Witness ==
    /\ pc = "returned"
    /\ Len(batches) = 3
    /\ \E t, u, v \in Tasks :
         /\ logged[t] = "generate"
         /\ logged[u] = "parse"
         /\ logged[v] = NoError
         /\ n_calls[t] = 1 /\ n_calls[u] = 1 /\ n_calls[v] = 1

\* ------------------------------------------- properties of two runs

\* C18: with a fixed sample order and a client that answers the same prompt
\* always in the same way, the outputs the second run of _query returns have,
\* at every place, the prediction, correct, probability and text (and the
\* ground truth and distance) of the outputs the first run returned.
C18_SecondRunReturnsTheSame ==
    (pc = "returned" /\ earlier # <<>>) =>
        /\ Len(returned) = Len(earlier[1])
        /\ \A k \in DOMAIN returned : Outputs(returned)[k] = earlier[1][k]

\* C18 witness: the second run has returned for two batches, the first of
\* which was parsed with probabilities and the second of which raised.
C18_Witness ==
    /\ pc = "returned"
    /\ earlier # <<>>
    /\ Len(batches) = 2
    /\ logged[1] = NoError
    /\ logged[2] = "generate"
    /\ Outputs(returned)[1].probability.kind = "float"
    /\ Outputs(returned)[1].prediction = 1
    /\ Outputs(returned)[Len(returned)].prediction = -1

\* ------------------------------------------ properties of the samplers

\* The quantiles the sampler of `call` draws its test groups from; none
\* when the split raised
TestQuantiles ==
    CASE call.sampler = "random_and_activation_quantiles" ->
           LET split == split_activation_quantiles(record.examples,
                                                   call.n_quantiles)
           IN IF split.raised # NoException THEN <<>> ELSE Tail(split.value)
      [] call.sampler = "top_and_activation_quantiles" ->
           LET split == split_activation_quantiles(
                           SliceFrom(record.examples, call.n_train),
                           call.n_quantiles)
           IN IF split.raised # NoException THEN <<>> ELSE split.value
      [] call.sampler = "top_and_quantiles" ->
           split_quantiles(SliceFrom(record.examples, call.n_train),
                           call.n_quantiles)

\* C19: when one of the test quantiles of a sampler holds fewer than n_test
\* examples, the sampler raises and leaves record.test unset; a sampler that
\* returns has set one test group of n_test examples for every test quantile.
C19_ShortQuantileRaises ==
    /\ (/\ pc \in {"sampled", "raised"}
        /\ \E q \in DOMAIN TestQuantiles :
             Len(TestQuantiles[q]) < call.n_test)
       => pc = "raised" /\ record.test = <<>>
    /\ pc = "sampled" =>
         /\ Len(record.test) = Len(TestQuantiles)
         /\ \A q \in DOMAIN record.test : Len(record.test[q]) = call.n_test

\* C19 witness: top_and_quantiles has raised for a record whose two test
\* quantiles hold one example each when n_test is 2.
C19_Witness ==
    /\ pc = "raised"
    /\ call.sampler = "top_and_quantiles"
    /\ Len(TestQuantiles) = 2
    /\ Len(TestQuantiles[1]) = 1
    /\ Len(TestQuantiles[2]) = 1
    /\ call.n_test = 2

\* ------------------------------------------- properties of the frame

\* C20: from the preparation on, in every state of the shuffle, of _batch,
\* of _query and of _generate, every sample has the text, and its data the
\* ground truth and the distance, it was constructed with, in the sample
\* list and in the batches, also when its batch failed.
C20_SamplesUnchanged ==
    pc # "prepare" =>
        /\ DOMAIN data = DOMAIN PreparedData(record.n_random, record.n_test)
        /\ \A i \in DOMAIN data :
             /\ data[i].ground_truth
                  = PreparedData(record.n_random, record.n_test)[i]
                      .ground_truth
             /\ data[i].distance
                  = PreparedData(record.n_random, record.n_test)[i].distance
        /\ \A k \in DOMAIN samples :
             samples[k].text
               = PreparedSamples(record.n_random, record.n_test)
                   [samples[k].id].text
        /\ \A t \in DOMAIN batches : \A k \in DOMAIN batches[t] :
             batches[t][k].text
               = PreparedSamples(record.n_random, record.n_test)
                   [batches[t][k].id].text

\* C20 witness: _query has returned for a verbose scorer, one batch was
\* parsed and another failed, and the outputs of both were written.
C20_Witness ==
    /\ pc = "returned"
    /\ verbose
    /\ \E t, u \in Tasks :
         /\ logged[t] = NoError
         /\ logged[u] # NoError
         /\ \E k \in DOMAIN batches[t] :
              /\ BatchOutputs(t)[k].prediction = 1
              /\ BatchOutputs(t)[k].text = batches[t][k].text
         /\ \E k \in DOMAIN batches[u] :
              /\ BatchOutputs(u)[k].prediction = -1
              /\ BatchOutputs(u)[k].ground_truth

\* ---------------------------------------- properties of the termination

\* C21: when every call of client.generate returns or raises in the end,
\* _query returns in the end; every batch that waits for admission gets its
\* call issued; and once _query has returned every batch is done, also those
\* whose call raised or whose response failed to parse, the semaphore has
\* its full capacity again and nobody waits on it.
C21_QueryReturns ==
    /\ <>(pc = "returned")
    /\ \A t \in 1..MaxSamples :
         (t \in Tasks /\ task[t] = "waiting")
            ~> (t \in Tasks /\ task[t] = "calling")
    /\ [](pc = "returned" =>
            /\ \A t \in Tasks : task[t] = "done"
            /\ sem_value = SemCapacity
            /\ sem_waiters = <<>>)

\* C21 witness: _query has returned for three batches of which one raised
\* and one failed to parse, and the semaphore is free again.
C21_Witness ==
    /\ pc = "returned"
    /\ Len(batches) = 3
    /\ logged[1] = "generate"
    /\ logged[2] = "parse"
    /\ logged[3] = NoError
    /\ sem_value = SemCapacity
    /\ sem_waiters = <<>>

\* C22, in every state: while the call of a batch is in flight, _query has
\* not returned, and no batch after it has had its call issued: each of them
\* is not yet started or waits on the semaphore.
C22_HungCallState ==
    \A t \in Tasks :
        task[t] = "calling" =>
            /\ pc = "gather"
            /\ \A u \in Tasks :
                 u > t => n_calls[u] = 0 /\ task[u] \in {"created", "waiting"}

\* C22, in every step: a call in flight ends only by completing (there is
\* no timeout and no cancellation), and a batch that waits on the semaphore
\* stays there while a call is in flight.
C22_HungCallStep ==
    \A t \in Tasks :
        task[t] = "calling" =>
            /\ task'[t] \in {"calling", "completed"}
            /\ task'[t] = "calling" =>
                 /\ pc' = "gather"
                 /\ \A u \in Tasks :
                      task[u] = "waiting" => task'[u] = "waiting"

\* C22: there is no watchdog: as long as one call of client.generate has not
\* completed, _query does not return and, the capacity being 1, no batch
\* after the hung one has its call issued.
C22_NoWatchdog ==
    [](C22_HungCallState) /\ [][C22_HungCallStep]_vars

\* C22 witness: the call of the first batch is in flight and the two batches
\* after it wait on the semaphore.
C22_Witness ==
    /\ pc = "gather"
    /\ Len(batches) = 3
    /\ task[1] = "calling"
    /\ task[2] = "waiting"
    /\ task[3] = "waiting"
    /\ sem_waiters = <<2, 3>>

\* C23: with the capacity of 1 the calls are issued one after the other in
\* the order of the batches: when the call of batch k + 1 has been issued,
\* the call of batch k has completed.
C23_SequentialInBatchOrder ==
    pc \in {"gather", "returned", "raised"} =>
        \A k \in Tasks :
            (k + 1 \in Tasks /\ n_calls[k + 1] >= 1) =>
                /\ n_calls[k] = 1
                /\ task[k] \in {"completed", "done", "failed"}

\* C23 witness: the calls of the first two batches have completed and the
\* call of the third is in flight.
C23_Witness ==
    /\ pc = "gather"
    /\ Len(batches) = 3
    /\ task[1] = "done"
    /\ task[2] = "done"
    /\ task[3] = "calling"
    /\ n_calls = <<1, 1, 1>>

\* -------------------------------------- properties of the shared state

\* C24: the batch tasks only read the configuration of the scorer: in every
\* state of _query, whatever the tasks have done, self.generation_kwargs is
\* as __init__ left it, so that no task writes an object another task reads
\* or writes.
C24_ConfigurationOnlyRead ==
    pc \in {"gather", "returned", "raised"} =>
        /\ generation_kwargs.logprobs = FALSE
        /\ generation_kwargs.top_logprobs = 0

\* ------------------------------------------- properties of the client

\* An attempt failed: the backend call raised, or the content could not be
\* taken from the completion
AttemptFailed(outcome) ==
    \/ outcome.raised # NoException
    \/ ~call.raw /\ outcome.choices = <<>>

\* C25: Local.generate makes at most max_retries backend attempts, one
\* after the other; every attempt before the last one made has failed; it
\* returns exactly when the last attempt made succeeded, and then the result
\* of that attempt; it raises RuntimeError exactly when max_retries attempts
\* were made and all failed, with no attempt when max_retries is 0.
C25_RetriesThenRaises ==
    /\ n_calls[1] = Len(results)
    /\ n_calls[1] <= call.max_retries
    /\ \A i \in DOMAIN results :
         i < Len(results) => AttemptFailed(results[i])
    /\ pc = "returned" <=>
         (results # <<>> /\ ~AttemptFailed(results[Len(results)]))
    /\ pc = "returned" =>
         returned = <<IF call.raw THEN results[Len(results)]
                      ELSE results[Len(results)].choices[1]>>
    /\ pc # "returned" => returned = <<>>
    /\ pc = "RuntimeError" =>
         /\ n_calls[1] = call.max_retries
         /\ \A i \in DOMAIN results : AttemptFailed(results[i])
    /\ (/\ pc \notin {"for", "sleep"}
        /\ n_calls[1] = call.max_retries
        /\ \A i \in DOMAIN results : AttemptFailed(results[i]))
       => pc = "RuntimeError"

\* C25 witness: with max_retries 2 the first attempt raised and the second
\* returned a completion, whose content was returned.
C25_Witness ==
    /\ pc = "returned"
    /\ call.max_retries = 2
    /\ ~call.raw
    /\ n_calls = <<2>>
    /\ results[1].raised = "APIError"
    /\ returned = <<"content">>
    /\ logged = <<"warning">>

\* ------------------------------------------- properties of the buffer

\* The records _worker builds from the items: one for every item that is not
\* None, in the order of the items
RECURSIVE RecordsOf(_)
RecordsOf(items) ==
    IF items = <<>> THEN <<>>
    ELSE LET rest == RecordsOf(SubSeq(items, 1, Len(items) - 1))
             last == items[Len(items)]
         IN  IF last.kind = "None" THEN rest
             ELSE Append(rest, [feature |-> last.feature])

\* C26: one pass over a TensorBuffer yields exactly one item per entry of
\* its feature list, in list order, and then stops: start is the number of
\* items yielded and never exceeds the length of the list, the item of an
\* entry is None exactly when the feature has at most 120 recorded
\* locations, and _worker has built a record for every item that is not None
\* and for no None item.
C26_OneItemPerFeature ==
    pc \in {"next", "returned"} =>
        /\ data.start = Len(returned)
        /\ data.start <= Len(data.features.items)
        /\ pc = "returned" => Len(returned) = Len(data.features.items)
        /\ n_calls[1] = Len(returned) + (IF pc = "returned" THEN 1 ELSE 0)
        /\ \A i \in DOMAIN returned :
             LET feature == data.features.items[i]
             IN  /\ returned[i].kind = "None"
                      <=> call.locations[feature] <= MinExamples
                 /\ returned[i].kind # "None" =>
                      /\ returned[i].feature = feature
                      /\ returned[i].locations = call.locations[feature]
        /\ results = RecordsOf(returned)
        /\ Len(results) =
             Cardinality({i \in DOMAIN returned :
                            call.locations[data.features.items[i]]
                              > MinExamples})

\* C26 witness: the pass over the selected features <<2, 0, 2>> is over,
\* feature 0 has exactly 120 locations and feature 2 has 121: the items are
\* an output, None and an output, and two records were built.
C26_Witness ==
    /\ pc = "returned"
    /\ call.features = Selected(<<2, 0, 2>>)
    /\ call.locations[0] = MinExamples
    /\ call.locations[2] = MinExamples + 1
    /\ data.start = 3
    /\ returned[2].kind = "None"
    /\ results = <<[feature |-> 2], [feature |-> 2]>>

====
